---- MODULE Spec2Model ----
(***************************************************************************)
(* A model of the PTE framework's retry module (core/retry.py): the delay  *)
(* calculator, the condition checkers and the two retry wrappers.          *)
(*                                                                         *)
(* Time and delays are integers (clock ticks).  A random draw              *)
(* random.uniform(a, b) is a nondeterministic choice among the integers    *)
(* between a and b.  jitter_factor is a percentage.                        *)
(***************************************************************************)
EXTENDS Integers, Sequences, FiniteSets, TLC

VARIABLES
    cfg,             \* RetryConfig of the decorated function, its mode and condition
    pc,              \* position of the wrapper: ready, for, try, after, done
    attempt,         \* loop variable of `for attempt in range(1, max_attempts + 1)`
    now,             \* time.time()
    start_time,      \* wrapper's start_time
    last_exception,  \* wrapper's last_exception ("None" when unset)
    calls,           \* invocations of the wrapped function so far
    raised,          \* how many of them raised
    last,            \* the latest invocation: what it returned or raised
    sleeps,          \* time.sleep(delay) calls so far
    timed_out,       \* TRUE once a timeout check found the timeout reached
    outcome,         \* how the decorated call ended
    dc,              \* a call of RetryDelayCalculator.calculate_delay
    current_logid,   \* Log._current_logid
    logger_logid,    \* logid of Log._logger_instance (NoneLogid: no instance yet)
    test_started,    \* Log._logger_instance.test_start_time is set
    generated,       \* generate_logid() calls so far
    accumulated,     \* PTELogger._accumulated_logs: logid -> entries accumulated
    log_entries,     \* the log entries written so far, each with its logid stamp
    attached,        \* entries emitted in CONSOLIDATED_<level>_LOGS attachments so far
    last_op,         \* the latest operation on the Log class
    last_set,        \* argument of the latest Log.set_logid
    reported,        \* value returned by the latest Log.get_logid
    headers,         \* dict returned by the latest Log.get_headers_with_logid
    config_headers,  \* the headers the configuration holds for the environment
    configured,      \* the headers the configuration files gave
    client,          \* the APIClient, once constructed
    ops,             \* the UserOperations object and its _make_request call
    last_request,    \* the latest HTTP request sent
    config_call,     \* a call of TestEnvironment.get_config
    instances,       \* logids of the PTELogger instances made for one logger name
    handlers,        \* handlers of that logging.Logger: the instance each filter is bound to
    last_line        \* the latest console / file log line

wrapperVars == <<cfg, pc, attempt, now, start_time, last_exception, calls,
                 raised, last, sleeps, timed_out, outcome>>

logVars == <<current_logid, logger_logid, test_started, generated, accumulated,
             log_entries, attached, last_op, last_set, reported, headers>>

clientVars == <<config_headers, configured, config_call, client, ops, last_request>>

handlerVars == <<instances, handlers, last_line>>

appVars == <<logVars, clientVars, handlerVars>>

\* everything but the Log class's state
notLogVars == <<wrapperVars, dc, clientVars, handlerVars>>

vars == <<wrapperVars, dc, appVars>>

(***************************************************************************)
(* Bounds of the model.                                                    *)
(***************************************************************************)
MaxAttempts == 3      \* max_attempts ranges over 0..MaxAttempts
MaxCalcAttempt == 5   \* attempt numbers given to calculate_delay
MaxBase == 3          \* base delays given to calculate_delay
MaxMaxDelay == 6      \* max_delay values given to calculate_delay
MaxDur == 2           \* ticks one invocation of the wrapped function may take
MaxTimeout == 2       \* timeout ranges over 0 (unset, falsy like None) .. MaxTimeout
MaxVal == 1           \* values stored under a dict key range over 0..MaxVal

Min(a, b) == IF a <= b THEN a ELSE b
Max(a, b) == IF a >= b THEN a ELSE b

RECURSIVE Pow2(_)
Pow2(n) == IF n <= 0 THEN 1 ELSE 2 * Pow2(n - 1)

(***************************************************************************)
(* RetryStrategy                                                           *)
(***************************************************************************)
RetryStrategy == {"fixed", "exponential", "linear", "random", "fibonacci"}

\* random.uniform(a, b): any value between a and b, whichever is the larger.
Uniform(a, b) == Min(a, b)..Max(a, b)

\* jitter_factor in percent: the default 0.1, the documented maximum 1.0, and more.
JitterFactors == {10, 100, 150}

(***************************************************************************)
(* RetryDelayCalculator                                                    *)
(***************************************************************************)
RECURSIVE FibLoop(_, _, _, _)
FibLoop(i, n, a, b) == IF i > n THEN b ELSE FibLoop(i + 1, n, b, a + b)

\* Mutant: a fibonacci sequence started one step late (1, 2, 3, 5, ...).
FibonacciShifted(n) == IF n <= 1 THEN n ELSE FibLoop(2, n, 1, 1)

\* _fibonacci(n): iterative, a, b = 0, 1; for _ in range(2, n + 1): a, b = b, a + b
Fibonacci(n) == IF n <= 1 THEN n ELSE FibLoop(2, n, 0, 1)

\* The delay before jitter: a set, since RANDOM draws it.
StrategyDelay(a, base_delay, strategy) ==
    CASE strategy = "fixed"       -> {base_delay}
      [] strategy = "exponential" -> {base_delay * Pow2(a - 1)}
      [] strategy = "linear"      -> {base_delay * a}
      [] strategy = "random"      -> Uniform(0, base_delay * Pow2(a - 1))
      [] strategy = "fibonacci"   -> {base_delay * Fibonacci(a)}
      [] OTHER                    -> {base_delay}

\* if jitter: delay += random.uniform(-delay * jitter_factor, delay * jitter_factor)
ApplyJitter(delay, jitter, jitter_factor) ==
    IF jitter
    THEN LET jitter_amount == (delay * jitter_factor) \div 100
         IN  {delay + j : j \in Uniform(-jitter_amount, jitter_amount)}
    ELSE {delay}

\* Mutant: the clamp without its upper bound.
ClampDelayNoCap(delay, max_delay) == Max(0, delay)

\* delay = max(0, min(delay, max_delay))
ClampDelay(delay, max_delay) == Max(0, Min(delay, max_delay))

\* calculate_delay: the set of values a call may return.
CalculateDelay(a, base_delay, max_delay, strategy, jitter, jitter_factor) ==
    { ClampDelay(j, max_delay) :
        j \in UNION { ApplyJitter(d, jitter, jitter_factor) :
                        d \in StrategyDelay(a, base_delay, strategy) } }

(***************************************************************************)
(* Results of the wrapped function.  A result is a record                  *)
(*   kind : "dict" or the literal of a non-dict value,                     *)
(*   keys : the keys of a dict result,                                     *)
(*   val  : the value under each key (0 under a key the dict lacks).       *)
(***************************************************************************)
Keys == {"status", "count"}
Vals == 0..MaxVal

NoVal == [k \in Keys |-> 0]

NonDictKinds == {"None", "False", "0", "''", "[]", "'ok'"}

NonDictResults == {[kind |-> k, keys |-> {}, val |-> NoVal] : k \in NonDictKinds}

DictResults ==
    {[kind |-> "dict", keys |-> ks, val |-> v] :
        <<ks, v>> \in {p \in (SUBSET Keys) \X [Keys -> Vals] :
                           \A k \in Keys \ p[1] : p[2][k] = 0}}

Results == NonDictResults \cup DictResults

NoneResult == [kind |-> "None", keys |-> {}, val |-> NoVal]

Dict(ks, status, count) ==
    [kind |-> "dict", keys |-> ks, val |-> [k \in Keys |-> IF k = "status" THEN status ELSE count]]

\* What the wrapped functions of the wrapper model return: every non-dict
\* value, the empty dict, dicts lacking one key, dicts with both keys.
FuncResults ==
    NonDictResults \cup
    {Dict({}, 0, 0), Dict({"status"}, 1, 0), Dict({"count"}, 0, 1),
     Dict(Keys, 1, 0), Dict(Keys, 0, 1), Dict(Keys, 1, 1)}

(***************************************************************************)
(* create_condition_checker.  A condition is a record                      *)
(*   kind    : "callable", "dict" or "other",                              *)
(*   name    : the callable (one of the module's own predicates),          *)
(*   entries : the items of a dict condition, in the dict's order; each is *)
(*             [key, op, value, container], op = "direct" for an expected  *)
(*             value that is no {"operator": ...} dict, container the      *)
(*             "value" of an in / not_in entry.                            *)
(* A checker answers "True", "False" or the exception it raises.           *)
(***************************************************************************)
ClaimedOperators == {"eq", "ne", "gt", "gte", "lt", "lte"}

Operators == ClaimedOperators \cup
             {"in", "not_in", "contains", "not_contains", "not_empty", "between"}

Containers == {{}, {0}, Vals}

\* One item of dict_condition_checker's loop, the key being present:
\* "False" = return False, "pass" = go on to the next item.
CheckEntry(actual_value, e) ==
    CASE e.op = "direct"       -> IF actual_value # e.value THEN "False" ELSE "pass"
      [] e.op = "eq"           -> IF actual_value # e.value THEN "False" ELSE "pass"
      [] e.op = "ne"           -> IF actual_value = e.value THEN "False" ELSE "pass"
      [] e.op = "gt"           -> IF actual_value <= e.value THEN "False" ELSE "pass"
      [] e.op = "gte"          -> IF actual_value < e.value THEN "False" ELSE "pass"
      [] e.op = "lt"           -> IF actual_value >= e.value THEN "False" ELSE "pass"
      [] e.op = "lte"          -> IF actual_value > e.value THEN "False" ELSE "pass"
      [] e.op = "in"           -> IF actual_value \notin e.container THEN "False" ELSE "pass"
      [] e.op = "not_in"       -> IF actual_value \in e.container THEN "False" ELSE "pass"
         \* value (a one-digit string) in str(actual_value)
      [] e.op = "contains"     -> IF e.value # actual_value THEN "False" ELSE "pass"
      [] e.op = "not_contains" -> IF e.value = actual_value THEN "False" ELSE "pass"
         \* len(actual_value) of an int
      [] e.op = "not_empty"    -> "TypeError"
      [] OTHER                 -> "pass"

RECURSIVE CheckEntries(_, _, _)
CheckEntries(result, entries, i) ==
    IF i > Len(entries) THEN "True"
    ELSE LET e == entries[i]
         IN  IF e.key \notin result.keys THEN "False"
             ELSE LET r == CheckEntry(result.val[e.key], e)
                  IN  IF r = "pass" THEN CheckEntries(result, entries, i + 1)
                      ELSE r

\* Mutant: a checker that goes on to the next item when a key is missing.
DictConditionCheckerSkipMissing(result, entries) ==
    IF result.kind # "dict" THEN "False"
    ELSE CheckEntries(result,
                      SelectSeq(entries, LAMBDA e : e.key \in result.keys), 1)

dict_condition_checker(result, entries) ==
    IF result.kind # "dict" THEN "False"
    ELSE CheckEntries(result, entries, 1)

\* Mutant: the lambdas test truthiness (bool(result)) instead of identity.
CallableCheckerTruthy(name, result) ==
    IF \/ result.kind \in {"None", "False", "0", "''", "[]"}
       \/ (result.kind = "dict" /\ result.keys = {})
    THEN "False" ELSE "True"

\* The lambdas of retry_on_false and retry_on_none, is_not_empty of retry_on_empty.
CallableChecker(name, result) ==
    CASE name = "is_not_false" -> IF result.kind # "False" THEN "True" ELSE "False"
      [] name = "is_not_none"  -> IF result.kind # "None" THEN "True" ELSE "False"
      [] name = "is_not_empty" ->
            IF result.kind = "None" THEN "False"
            ELSE IF \/ result.kind \in {"[]", "''"}
                    \/ (result.kind = "dict" /\ result.keys = {})
                 THEN "False" ELSE "True"

\* condition_checker = create_condition_checker(condition)
condition_checker(condition, result) ==
    CASE condition.kind = "callable" -> CallableChecker(condition.name, result)
      [] condition.kind = "dict"     -> dict_condition_checker(result, condition.entries)
      [] OTHER                       -> "True"

(***************************************************************************)
(* Exceptions.  Mro(e) is the set of classes e is an instance of.          *)
(***************************************************************************)
Mro(e) ==
    CASE e = "ValueError"        -> {"ValueError", "Exception", "BaseException"}
      [] e = "TypeError"         -> {"TypeError", "Exception", "BaseException"}
      [] e = "TimeoutError"      -> {"TimeoutError", "OSError", "Exception", "BaseException"}
      [] e = "KeyboardInterrupt" -> {"KeyboardInterrupt", "BaseException"}

\* isinstance(exception, target_exceptions)
check_exception_condition(e, target_exceptions) ==
    Mro(e) \cap target_exceptions # {}

\* What the wrapped function may raise.
RaisedByFunc == {"ValueError", "TimeoutError", "KeyboardInterrupt"}

ExceptionTuples == {{"Exception"}, {"ValueError"}, {"ValueError", "TimeoutError"}}

(***************************************************************************)
(* The decorated functions: retry(...) and retry_with_condition(...).      *)
(***************************************************************************)
Conditions ==
    {[kind |-> "callable", name |-> n, entries |-> <<>>] :
        n \in {"is_not_false", "is_not_none", "is_not_empty"}}
    \cup {[kind |-> "other", name |-> "", entries |-> <<>>]}
    \cup {[kind |-> "dict", name |-> "", entries |-> es] :
            es \in { <<[key |-> "status", op |-> "direct", value |-> 1, container |-> {}]>>,
                     <<[key |-> "count", op |-> "gte", value |-> 1, container |-> {}]>>,
                     <<[key |-> "status", op |-> "direct", value |-> 1, container |-> {}],
                       [key |-> "count", op |-> "lt", value |-> 1, container |-> {}]>> }}

NoCondition == [kind |-> "none", name |-> "", entries |-> <<>>]

DelaySettings ==
    {[delay |-> 1, max_delay |-> 2, strategy |-> "exponential", jitter |-> FALSE, jitter_factor |-> 10],
     [delay |-> 1, max_delay |-> 2, strategy |-> "fixed", jitter |-> TRUE, jitter_factor |-> 100],
     [delay |-> 2, max_delay |-> 1, strategy |-> "random", jitter |-> FALSE, jitter_factor |-> 10]}

\* timeout: unset (0 here, falsy like None) or a positive number of ticks.
Timeouts == 0..MaxTimeout

Config(mode, condition, n, ex, t, ds) ==
    [mode |-> mode, condition |-> condition, max_attempts |-> n,
     delay |-> ds.delay, max_delay |-> ds.max_delay, strategy |-> ds.strategy,
     exceptions |-> ex, timeout |-> t,
     jitter |-> ds.jitter, jitter_factor |-> ds.jitter_factor]

Configs ==
    {Config("retry", NoCondition, n, ex, t, ds) :
        n \in 0..MaxAttempts, ex \in ExceptionTuples, t \in Timeouts,
        ds \in DelaySettings}
    \cup
    {Config("cond", c, n, ex, t, ds) :
        c \in Conditions, n \in 0..MaxAttempts, ex \in ExceptionTuples,
        t \in Timeouts, ds \in DelaySettings}

NoInvocation == [kind |-> "none", val |-> NoneResult, exc |-> "None", sat |-> "n/a"]
NoDelayCall ==
    [pc |-> "off", attempt |-> 1, base_delay |-> 0, max_delay |-> 0,
     strategy |-> "fixed", jitter |-> FALSE, jitter_factor |-> 0, result |-> 0]

NoOutcome == [kind |-> "none", val |-> NoneResult, exc |-> "None"]
Returned(v) == [kind |-> "return", val |-> v, exc |-> "None"]
Raised(e) == [kind |-> "raise", val |-> NoneResult, exc |-> e]


(***************************************************************************)
(* LogIDs and header dicts (core/logger.py).  A logid is a number: None,   *)
(* the empty string (falsy, but not None), a value a caller passes to      *)
(* Log.set_logid, or the n-th value generate_logid() produced.             *)
(***************************************************************************)
MaxGiven == 2       \* callers pass logids 1..MaxGiven (and the empty string)
MaxGenerated == 3   \* generate_logid() calls in one behaviour
MaxEntries == 2     \* log entries written in one behaviour
MaxRetryCount == 2  \* retry_count of the configuration ranges over 0..MaxRetryCount

\* _current_logid: Optional[str] = None
NoneLogid == -1
\* '' : a str for which `logid or generate_logid()` generates
EmptyLogid == 0
GivenLogids == 1..MaxGiven

\* LogIdGenerator.generate_logid(): the n-th generated logid, fresh every call
\* (md5 over the time, a random number, process and thread ids).
GenLogid(n) == MaxGiven + n

\* `logid or ...`: truthiness of a logid
Truthy(l) == l # NoneLogid /\ l # EmptyLogid

\* Header dicts: functions from header names to values; value 1 of
\* Content-Type is 'application/json'.
NoHeaders == [k \in {} |-> 0]

\* {**h, **a}, also h.update(a)
Merge(h, a) ==
    [k \in DOMAIN h \cup DOMAIN a |-> IF k \in DOMAIN a THEN a[k] ELSE h[k]]

\* no console or file log line written yet
NoLine == [through |-> 0, logid |-> NoneLogid, shown |-> NoneLogid]

\* logger = PTELogger("PTE") at import: one generated logid, its entry in
\* PTELogger._accumulated_logs; the Log class has no logid and no logger yet.
LogInit ==
    /\ current_logid = NoneLogid
    /\ logger_logid = NoneLogid
    /\ test_started = FALSE
    /\ generated = 1
    /\ accumulated = [k \in {GenLogid(1)} |-> 0]
    /\ log_entries = <<>>
    /\ attached = 0
    /\ instances = <<>>
    /\ handlers = <<>>
    /\ last_line = NoLine
    /\ last_op = "none"
    /\ last_set = NoneLogid
    /\ reported = NoneLogid
    /\ headers = NoHeaders

(***************************************************************************)
(* Configured headers, the APIClient and UserOperations objects.           *)
(***************************************************************************)
\* headers of the environment as the configuration files give them
ConfiguredHeaders ==
    {"Content-Type" :> 1, ("Content-Type" :> 1) @@ ("Accept" :> 1)}

NoClient ==
    [made |-> FALSE, explicit |-> FALSE, logid |-> NoneLogid, custom |-> NoHeaders,
     default_headers |-> NoHeaders, headers |-> NoHeaders]

\* no value returned or exception raised by _make_request yet
NoResult == [kind |-> "none", value |-> "none", keys |-> {}]

NoOps ==
    [made |-> FALSE, headers |-> NoHeaders, retry_count |-> 0, pc |-> "idle",
     method |-> "none", attempt |-> 0, status |-> "none", body |-> "none",
     sent |-> 0, ok_seen |-> FALSE, result |-> NoResult]

NoRequest ==
    [by |-> "none", method |-> "none", headers |-> NoHeaders, outcome |-> "none",
     logger |-> FALSE, api_call_entries |-> 0, current |-> NoneLogid]

\* no call of TestEnvironment.get_config under way
NoConfigCall ==
    [pc |-> "none", idc |-> NoHeaders, default_headers |-> NoHeaders,
     env |-> NoHeaders, headers |-> NoHeaders,
     result |-> [settings |-> NoHeaders, headers |-> NoHeaders]]

ClientInit ==
    /\ config_headers \in ConfiguredHeaders
    /\ configured = config_headers
    /\ config_call = NoConfigCall
    /\ client = NoClient
    /\ ops = NoOps
    /\ last_request = NoRequest

\* The initial state where the objects of the test framework play no part.
AppInit == LogInit /\ ClientInit /\ config_headers = "Content-Type" :> 1

WrapperInit ==
    /\ pc = "ready"
    /\ attempt = 0
    /\ now = 0
    /\ start_time = 0
    /\ last_exception = "None"
    /\ calls = 0
    /\ raised = 0
    /\ last = NoInvocation
    /\ sleeps = 0
    /\ timed_out = FALSE
    /\ outcome = NoOutcome

Init ==
    /\ cfg \in Configs
    /\ WrapperInit
    /\ dc = NoDelayCall
    /\ AppInit

\* Mutant: the timeout counts only once it is exceeded.
CheckTimeoutStrict(t, start, timeout) == t - start > timeout

\* time.time() - start_time >= timeout
check_timeout_condition(t, start, timeout) == t - start >= timeout

\* if config.timeout and check_timeout_condition(start_time, config.timeout)
TimeoutHit == cfg.timeout # 0 /\ check_timeout_condition(now, start_time, cfg.timeout)

\* The wrapper ends: return or raise.
Finish(o, t) ==
    /\ pc' = "done"
    /\ outcome' = o
    /\ now' = t
    /\ UNCHANGED sleeps

\* Calculate delay, (log,) time.sleep(delay); the loop goes on.
DelayAndSleep(t) ==
    \E d \in CalculateDelay(attempt, cfg.delay, cfg.max_delay, cfg.strategy,
                            cfg.jitter, cfg.jitter_factor) :
        /\ sleeps' = sleeps + 1
        /\ now' = t + d
        /\ pc' = "for"
        /\ UNCHANGED outcome

\* Mutant: a delay after the last failed attempt too.
ExceptSleepsOnLast(e, t) ==
    IF check_exception_condition(e, cfg.exceptions)
    THEN /\ last_exception' = e
         /\ IF attempt > cfg.max_attempts THEN Finish(Raised(e), t) ELSE DelayAndSleep(t)
    ELSE /\ Finish(Raised(e), t)
         /\ UNCHANGED last_exception

\* Mutant: one except clause that retries whatever was raised.
ExceptRetriesAll(e, t) ==
    /\ last_exception' = e
    /\ IF attempt >= cfg.max_attempts THEN Finish(Raised(e), t) ELSE DelayAndSleep(t)

\* The except clauses, for an exception e raised in the try block at time t:
\*   except config.exceptions: raise on the last attempt, else delay and go on;
\*   except Exception: raise.  Anything else propagates.
Except(e, t) ==
    IF check_exception_condition(e, cfg.exceptions)
    THEN /\ last_exception' = e
         /\ IF attempt >= cfg.max_attempts THEN Finish(Raised(e), t) ELSE DelayAndSleep(t)
    ELSE /\ Finish(Raised(e), t)
         /\ UNCHANGED last_exception

\* def wrapper(*args, **kwargs): start_time = time.time(); last_exception = None
Call ==
    /\ pc = "ready"
    /\ start_time' = now
    /\ last_exception' = "None"
    /\ attempt' = 0
    /\ pc' = "for"
    /\ UNCHANGED <<cfg, now, calls, raised, last, sleeps, timed_out, outcome, dc, appVars>>

\* Mutant: a loop whose counter does not advance past the first attempt.
ForLoopStuck ==
    /\ pc = "for"
    /\ IF attempt < cfg.max_attempts
       THEN attempt' = 1 /\ pc' = "try"
       ELSE attempt' = attempt /\ pc' = "after"
    /\ UNCHANGED <<cfg, now, start_time, last_exception, calls, raised, last,
                   sleeps, timed_out, outcome, dc, appVars>>

\* for attempt in range(1, config.max_attempts + 1)
ForLoop ==
    /\ pc = "for"
    /\ IF attempt < cfg.max_attempts
       THEN attempt' = attempt + 1 /\ pc' = "try"
       ELSE attempt' = attempt /\ pc' = "after"
    /\ UNCHANGED <<cfg, now, start_time, last_exception, calls, raised, last,
                   sleeps, timed_out, outcome, dc, appVars>>

\* The timeout check finds the timeout reached: raise TimeoutError inside try.
TimeoutReached ==
    /\ pc = "try"
    /\ TimeoutHit
    /\ timed_out' = TRUE
    /\ Except("TimeoutError", now)
    /\ UNCHANGED <<cfg, attempt, start_time, calls, raised, last, dc, appVars>>

\* result = func(*args, **kwargs) raises e after dur ticks.
InvokeRaises(e, dur) ==
    /\ pc = "try"
    /\ ~TimeoutHit
    /\ calls' = calls + 1
    /\ raised' = raised + 1
    /\ last' = [kind |-> "raise", val |-> NoneResult, exc |-> e, sat |-> "n/a"]
    /\ Except(e, now + dur)
    /\ UNCHANGED <<cfg, attempt, start_time, timed_out, dc, appVars>>

\* Mutant: the result is dropped.
RetryOnReturnNone(v, t) ==
    /\ Finish(Returned(NoneResult), t)
    /\ UNCHANGED last_exception

\* Mutant: the timeout is checked again when the function has returned.
RetryOnReturnTimeout(v, t) ==
    IF cfg.timeout # 0 /\ check_timeout_condition(t, start_time, cfg.timeout)
    THEN Finish(Raised("TimeoutError"), t) /\ UNCHANGED last_exception
    ELSE Finish(Returned(v), t) /\ UNCHANGED last_exception

\* retry.wrapper: return result
RetryOnReturn(v, t) ==
    /\ Finish(Returned(v), t)
    /\ UNCHANGED last_exception

\* Mutant: the wrapper goes on while the condition IS satisfied.
CondOnReturnInverted(v, t) ==
    LET c == condition_checker(cfg.condition, v)
    IN  CASE c = "False" -> Finish(Returned(v), t) /\ UNCHANGED last_exception
          [] c = "True"  ->
                /\ IF attempt >= cfg.max_attempts
                   THEN Finish(Returned(v), t)
                   ELSE DelayAndSleep(t)
                /\ UNCHANGED last_exception
          [] OTHER       -> Except(c, t)

\* Mutant: the last unsatisfied result is turned into an exception.
CondOnReturnRaisesOnLast(v, t) ==
    LET c == condition_checker(cfg.condition, v)
    IN  CASE c = "True"  -> Finish(Returned(v), t) /\ UNCHANGED last_exception
          [] c = "False" ->
                /\ IF attempt >= cfg.max_attempts
                   THEN Finish(Raised("Exception"), t)
                   ELSE DelayAndSleep(t)
                /\ UNCHANGED last_exception
          [] OTHER       -> Except(c, t)

\* Mutant: an exception of the condition checker counts as "not satisfied".
CondOnReturnSwallows(v, t) ==
    LET c == condition_checker(cfg.condition, v)
    IN  CASE c = "True"  -> Finish(Returned(v), t) /\ UNCHANGED last_exception
          [] OTHER ->
                /\ IF attempt >= cfg.max_attempts
                   THEN Finish(Returned(v), t)
                   ELSE DelayAndSleep(t)
                /\ UNCHANGED last_exception

\* retry_with_condition.wrapper: the result against the condition checker.
CondOnReturn(v, t) ==
    LET c == condition_checker(cfg.condition, v)
    IN  CASE c = "True"  -> Finish(Returned(v), t) /\ UNCHANGED last_exception
          [] c = "False" ->
                /\ IF attempt >= cfg.max_attempts
                   THEN Finish(Returned(v), t)
                   ELSE DelayAndSleep(t)
                /\ UNCHANGED last_exception
          [] OTHER       -> Except(c, t)

\* result = func(*args, **kwargs) returns v after dur ticks.
InvokeReturns(v, dur) ==
    /\ pc = "try"
    /\ ~TimeoutHit
    /\ calls' = calls + 1
    /\ last' = [kind |-> "return", val |-> v, exc |-> "None",
                sat |-> IF cfg.mode = "cond" THEN condition_checker(cfg.condition, v)
                        ELSE "n/a"]
    /\ IF cfg.mode = "retry" THEN RetryOnReturn(v, now + dur) ELSE CondOnReturn(v, now + dur)
    /\ UNCHANGED <<cfg, attempt, start_time, raised, timed_out, dc, appVars>>

\* After the loop: if last_exception: raise last_exception (else None is returned).
AfterLoop ==
    /\ pc = "after"
    /\ IF last_exception # "None"
       THEN Finish(Raised(last_exception), now)
       ELSE Finish(Returned(NoneResult), now)
    /\ UNCHANGED <<cfg, attempt, start_time, last_exception, calls, raised, last,
                   timed_out, dc, appVars>>

Next ==
    \/ Call
    \/ ForLoop
    \/ TimeoutReached
    \/ \E e \in RaisedByFunc, dur \in 0..MaxDur : InvokeRaises(e, dur)
    \/ \E v \in FuncResults, dur \in 0..MaxDur : InvokeReturns(v, dur)
    \/ AfterLoop

Spec == Init /\ [][Next]_vars

(***************************************************************************)
(* SpecDelay: calls of RetryDelayCalculator.calculate_delay on its own.    *)
(***************************************************************************)
DelayCalls ==
    {[pc |-> "call", attempt |-> a, base_delay |-> b, max_delay |-> m,
      strategy |-> s, jitter |-> j, jitter_factor |-> f, result |-> 0] :
        a \in 1..MaxCalcAttempt, b \in 0..MaxBase, m \in 0..MaxMaxDelay,
        s \in RetryStrategy, j \in BOOLEAN, f \in JitterFactors}

IdleConfig ==
    Config("retry", NoCondition, 1, {"Exception"}, 0,
           [delay |-> 1, max_delay |-> 2, strategy |-> "exponential",
            jitter |-> FALSE, jitter_factor |-> 10])

InitDelay ==
    /\ cfg = IdleConfig
    /\ WrapperInit
    /\ dc \in DelayCalls
    /\ AppInit

\* delay = RetryDelayCalculator.calculate_delay(...)
CalculateDelayCall ==
    /\ dc.pc = "call"
    /\ \E d \in CalculateDelay(dc.attempt, dc.base_delay, dc.max_delay, dc.strategy,
                              dc.jitter, dc.jitter_factor) :
          dc' = [dc EXCEPT !.pc = "done", !.result = d]
    /\ UNCHANGED <<wrapperVars, appVars>>

NextDelay == CalculateDelayCall

SpecDelay == InitDelay /\ [][NextDelay]_vars

(***************************************************************************)
(* SpecCond: retry_with_condition with a dict condition, over every        *)
(* condition of at most two items and every result; the wrapped function   *)
(* returns at once and never raises.                                       *)
(***************************************************************************)
ConditionEntries ==
    {[key |-> k, op |-> o, value |-> v, container |-> {}] :
        k \in Keys, o \in {"direct"} \cup (Operators \ {"in", "not_in"}), v \in Vals}
    \cup
    {[key |-> k, op |-> o, value |-> 0, container |-> c] :
        k \in Keys, o \in {"in", "not_in"}, c \in Containers}

DictConditions ==
    {<<>>}
    \cup {<<e>> : e \in ConditionEntries}
    \cup {<<e1, e2>> : <<e1, e2>> \in
            {p \in ConditionEntries \X ConditionEntries :
                p[1].key = "status" /\ p[2].key = "count"}}
    \cup {<<e1, e2>> : <<e1, e2>> \in
            {p \in ConditionEntries \X ConditionEntries :
                /\ p[1].key = "count" /\ p[2].key = "status"
                /\ p[1].op \in {"direct", "not_empty"} /\ p[2].op \in {"direct", "lt"}}}

CondConfigs ==
    {Config("cond", [kind |-> "dict", name |-> "", entries |-> es], 2, ex, 0,
            [delay |-> 1, max_delay |-> 2, strategy |-> "fixed",
             jitter |-> FALSE, jitter_factor |-> 10]) :
        es \in DictConditions, ex \in {{"Exception"}, {"ValueError"}}}

InitCond ==
    /\ cfg \in CondConfigs
    /\ WrapperInit
    /\ dc = NoDelayCall
    /\ AppInit

NextCond ==
    \/ Call
    \/ ForLoop
    \/ \E v \in Results : InvokeReturns(v, 0)

SpecCond == InitCond /\ [][NextCond]_vars

(***************************************************************************)
(* SpecUntil: functions decorated with retry_until_success, which is       *)
(* retry(...) with its own defaults.  Every step of the wrapper (a sleep,  *)
(* an invocation of a function that terminates) completes, hence WF.       *)
(***************************************************************************)
\* max_attempts: int = 5
UntilSuccessMaxAttempts == 5

\* delay = 2.0, max_delay = 60.0, EXPONENTIAL, jitter = True, jitter_factor = 0.1
UntilSuccessDelays ==
    [delay |-> 2, max_delay |-> 60, strategy |-> "exponential", jitter |-> TRUE,
     jitter_factor |-> 10]

\* retry_until_success(max_attempts, exceptions, timeout) = retry(...)
retry_until_success(n, ex, t) == Config("retry", NoCondition, n, ex, t, UntilSuccessDelays)

UntilSuccessConfigs ==
    {retry_until_success(n, ex, t) :
        n \in {0, 1, UntilSuccessMaxAttempts}, ex \in ExceptionTuples, t \in Timeouts}

InitUntil ==
    /\ cfg \in UntilSuccessConfigs
    /\ WrapperInit
    /\ dc = NoDelayCall
    /\ AppInit

SpecUntil == InitUntil /\ [][Next]_vars /\ WF_vars(Next)

(***************************************************************************)
(* SpecLog: the static Log class of core/logger.py, its TestLogger and the *)
(* PTELogger under it.                                                     *)
(***************************************************************************)
\* if logid not in _accumulated_logs: _accumulated_logs[logid] = {... empty lists}
AddKey(acc, k) ==
    IF k \in DOMAIN acc THEN acc
    ELSE [x \in DOMAIN acc \cup {k} |-> IF x = k THEN 0 ELSE acc[x]]

\* del _accumulated_logs[logid]
DropKey(acc, k) == [x \in DOMAIN acc \ {k} |-> acc[x]]

\* PTELogger.logid setter (through TestLogger's): a different value drops the
\* old logid's accumulated logs and starts the new logid's.
SetLoggerLogid(acc, old, new) ==
    IF old # new THEN AddKey(DropKey(acc, old), new) ELSE acc

\* _accumulated_logs[logid][level].append(log_entry), n times, when the key is there
Accumulate(acc, lid, n) ==
    IF lid \in DOMAIN acc THEN [acc EXCEPT ![lid] = @ + n] ELSE acc

\* Log._get_logger(): the logger instance, created on first use by
\* TestLogger("PTE", logid=cls._current_logid), whose logid is
\* `logid or generate_logid()`; Log._current_logid is not written.
get_logger ==
    IF logger_logid # NoneLogid
    THEN [lid |-> logger_logid, gen |-> generated, acc |-> accumulated,
          started |-> test_started]
    ELSE LET own == ~Truthy(current_logid)
             lid == IF own THEN GenLogid(generated + 1) ELSE current_logid
         IN  [lid |-> lid, gen |-> IF own THEN generated + 1 ELSE generated,
              acc |-> AddKey(accumulated, lid), started |-> FALSE]

LogMethods ==
    {"info", "warning", "error", "debug", "api_call", "assertion",
     "data_validation", "start_test", "end_test"}

\* How many log entries one Log method writes: end_test logs the duration
\* when start_test set the start time, then the completion; every other
\* method calls _log_to_allure once.
EntryCount(m, started) == IF m = "end_test" /\ started THEN 2 ELSE 1

\* log_entry = f"[{timestamp}] [{level}] [{self.logid}] [{caller_info}] {message}":
\* n entries, of which the model keeps the logid
Stamp(n, lid) == [i \in 1..n |-> [logid |-> lid]]

\* Log.info / warning / error / debug / api_call / assertion / data_validation /
\* start_test / end_test: cls._get_logger().<method>(...), every entry built by
\* _log_to_allure with the PTELogger's logid; test_complete then attaches the
\* accumulated logs and deletes them.
LogWrite(m, max) ==
    LET st == get_logger
        n == EntryCount(m, st.started)
        acc == Accumulate(st.acc, st.lid, n)
    IN  /\ st.gen <= MaxGenerated
        /\ Len(log_entries) + n <= max
        /\ logger_logid' = st.lid
        /\ generated' = st.gen
        /\ log_entries' = log_entries \o Stamp(n, st.lid)
        /\ accumulated' = IF m = "end_test" THEN DropKey(acc, st.lid) ELSE acc
        /\ attached' = IF m = "end_test" /\ st.lid \in DOMAIN acc
                       THEN attached + acc[st.lid]
                       ELSE attached
        /\ test_started' = (st.started \/ m = "start_test")
        /\ last_op' = "log"
        /\ UNCHANGED <<current_logid, last_set, reported, headers>>

LogCall(m) == LogWrite(m, MaxEntries)

\* Log.set_logid(logid)
SetLogid(x) ==
    /\ current_logid' = x
    /\ IF logger_logid # NoneLogid
       THEN /\ logger_logid' = x
            /\ accumulated' = SetLoggerLogid(accumulated, logger_logid, x)
       ELSE UNCHANGED <<logger_logid, accumulated>>
    /\ last_set' = x
    /\ last_op' = "set_logid"
    /\ UNCHANGED <<test_started, generated, log_entries, attached, reported>>

\* Mutant: get_logid generates a logid whenever it is called.
GetLogidAlwaysFresh ==
    [logid |-> GenLogid(generated + 1), gen |-> generated + 1]

\* cls.get_logid(): generates a logid only while _current_logid is None
get_logid ==
    IF current_logid = NoneLogid
    THEN [logid |-> GenLogid(generated + 1), gen |-> generated + 1]
    ELSE [logid |-> current_logid, gen |-> generated]

\* The state after a call of Log.get_logid(): a generated logid is stored and
\* pushed to the logger instance if there is one.
AfterGetLogid ==
    LET g == get_logid
    IN  /\ g.gen <= MaxGenerated
        /\ current_logid' = g.logid
        /\ generated' = g.gen
        /\ reported' = g.logid
        /\ IF g.logid # current_logid /\ logger_logid # NoneLogid
           THEN /\ logger_logid' = g.logid
                /\ accumulated' = SetLoggerLogid(accumulated, logger_logid, g.logid)
           ELSE UNCHANGED <<logger_logid, accumulated>>

\* Log.get_logid()
GetLogid ==
    /\ AfterGetLogid
    /\ last_op' = "get_logid"
    /\ UNCHANGED <<test_started, log_entries, attached, last_set>>

\* additional_headers arguments: None, and dicts with and without a logId key
AdditionalHeaders ==
    {NoHeaders,
     "Authorization" :> 1,
     ("Authorization" :> 1) @@ ("Content-Type" :> 2),
     "logId" :> 1,
     ("logId" :> 2) @@ ("Authorization" :> 1)}

\* Log.get_headers_with_logid(additional_headers)
GetHeadersWithLogid(a) ==
    /\ AfterGetLogid
    /\ headers' = Merge(("logId" :> current_logid') @@ ("Content-Type" :> 1), a)
    /\ last_op' = "get_headers_with_logid"
    /\ UNCHANGED <<test_started, log_entries, attached, last_set>>

InitLog ==
    /\ cfg = IdleConfig
    /\ WrapperInit
    /\ dc = NoDelayCall
    /\ AppInit

\* A test calls a logging method of the Log class.
CallLogMethod == \E m \in LogMethods : LogCall(m) /\ UNCHANGED notLogVars

CallSetLogid ==
    \E x \in {EmptyLogid} \cup GivenLogids : SetLogid(x) /\ UNCHANGED <<headers, notLogVars>>

CallGetLogid == GetLogid /\ UNCHANGED <<headers, notLogVars>>

NextLog ==
    \/ CallLogMethod
    \/ CallSetLogid
    \/ CallGetLogid

SpecLog == InitLog /\ [][NextLog]_vars

(***************************************************************************)
(* SpecHeaders: Log.get_headers_with_logid among set_logid, get_logid and  *)
(* logging calls.                                                          *)
(***************************************************************************)
CallInfoOrEndTest == \E m \in {"info", "end_test"} : LogCall(m) /\ UNCHANGED notLogVars

CallGetHeadersWithLogid ==
    \E a \in AdditionalHeaders : GetHeadersWithLogid(a) /\ UNCHANGED notLogVars

NextHeaders ==
    \/ CallInfoOrEndTest
    \/ CallSetLogid
    \/ CallGetLogid
    \/ CallGetHeadersWithLogid

SpecHeaders == InitLog /\ [][NextHeaders]_vars

(***************************************************************************)
(* SpecClient: an APIClient and the requests sent through it.              *)
(***************************************************************************)
\* headers a caller passes to APIClient(...) or to one of its verbs
CustomHeaders == {NoHeaders, "Authorization" :> 1, "logId" :> 1}

\* Mutant: get_headers hands out the configuration's own dict.
GetHeadersShared == [dict |-> config_headers, own |-> FALSE]

\* TestEnvironment.get_headers(env): config["headers"].copy(), where get_config
\* built config["headers"] as a new dict {**default_headers, **env_headers}
get_headers == [dict |-> config_headers, own |-> TRUE]

\* APIClient(headers=custom, logid=logid_arg)
NewAPIClient(custom, logid_arg) ==
    LET own == ~Truthy(logid_arg)
        logid == IF own THEN GenLogid(generated + 1) ELSE logid_arg
        got == get_headers
        default_headers == Merge(got.dict, "logId" :> logid)
    IN  /\ ~client.made
        /\ generated < MaxGenerated
        /\ generated' = IF own THEN generated + 1 ELSE generated
        /\ config_headers' = IF got.own THEN config_headers ELSE default_headers
        /\ client' = [made |-> TRUE, explicit |-> ~own, logid |-> logid,
                      custom |-> custom, default_headers |-> default_headers,
                      headers |-> IF custom # NoHeaders
                                  THEN Merge(default_headers, custom)
                                  ELSE default_headers]
        /\ UNCHANGED <<current_logid, logger_logid, test_started, accumulated,
                       log_entries, attached, last_op, last_set, reported, headers>>
        /\ UNCHANGED <<configured, config_call, ops, last_request, wrapperVars, dc, handlerVars>>

HttpMethods == {"GET", "POST", "PUT", "DELETE", "PATCH"}

\* What one verb logs through the Log class, given no logger argument: get
\* logs the call or the error, post / put / delete / patch log nothing.
LogsThroughLog(method, ending) ==
    IF method = "GET"
    THEN IF ending = "response" THEN <<"api_call">> ELSE <<"error">>
    ELSE <<>>

\* APIClient.get / post / put / delete / patch (headers=call_headers,
\* logger=given or None): the request goes out with {**self.headers, **headers};
\* it ends with a response or with an exception, which is re-raised.
SendRequest(method, call_headers, logger, ending) ==
    LET final_headers == Merge(client.headers, call_headers)
        through_log == IF logger THEN <<>> ELSE LogsThroughLog(method, ending)
        api_calls == IF ending # "response" THEN 0
                     ELSE IF logger THEN 1
                     ELSE Len(SelectSeq(through_log, LAMBDA k : k = "api_call"))
    IN  /\ client.made
        /\ last_request' =
              [by |-> "client", method |-> method, headers |-> final_headers,
               outcome |-> ending, logger |-> logger,
               api_call_entries |-> api_calls, current |-> get_logid.logid]
        /\ IF through_log # <<>>
           THEN LogCall(through_log[1])
           ELSE UNCHANGED <<current_logid, logger_logid, test_started, generated,
                            accumulated, log_entries, attached, last_op, last_set, reported>>
        /\ UNCHANGED <<headers, config_headers, configured, config_call, client, ops,
                       wrapperVars, dc, handlerVars>>

InitClient ==
    /\ cfg = IdleConfig
    /\ WrapperInit
    /\ dc = NoDelayCall
    /\ LogInit
    /\ ClientInit

ConstructClient ==
    \E custom \in CustomHeaders, l \in {NoneLogid} \cup GivenLogids :
        NewAPIClient(custom, l)

CallVerb ==
    \E m \in HttpMethods, h \in CustomHeaders, logger \in BOOLEAN,
       o \in {"response", "exception"} : SendRequest(m, h, logger, o)

NextClient ==
    \/ ConstructClient
    \/ CallVerb

SpecClient == InitClient /\ [][NextClient]_vars

(***************************************************************************)
(* SpecCorrelate: a test that constructs an APIClient and calls            *)
(* Log.set_logid and Log.get_logid, in any order.                          *)
(***************************************************************************)
NextCorrelate ==
    \/ ConstructClient
    \/ CallSetLogid
    \/ CallGetLogid

SpecCorrelate == InitClient /\ [][NextCorrelate]_vars

(***************************************************************************)
(* SpecOps: a UserOperations object and one call of its _make_request,     *)
(* made by one of the CRUD operations, while the test may set the LogID.   *)
(***************************************************************************)
\* UserOperations(custom_headers=custom), the configuration giving retry_count rc
NewUserOperations(custom, rc) ==
    LET merged == Merge(get_headers.dict, custom)
    IN  /\ ~ops.made
        /\ ops' = [NoOps EXCEPT
                     !.made = TRUE,
                     !.retry_count = rc,
                     !.headers = IF "Content-Type" \in DOMAIN merged THEN merged
                                 ELSE Merge(merged, "Content-Type" :> 1)]
        /\ UNCHANGED <<logVars, config_headers, configured, config_call, client, last_request,
                       wrapperVars, dc, handlerVars>>

\* get_all_users / get_user_by_id, create_user, update_user, delete_user
CrudMethods == {"GET", "POST", "PUT", "DELETE"}

\* _make_request(method, ...) is called: url = ...; the loop begins
MakeRequest(method) ==
    /\ ops.made /\ ops.pc = "idle"
    /\ ops' = [ops EXCEPT !.pc = "loop", !.method = method, !.attempt = 0]
    /\ UNCHANGED <<logVars, config_headers, configured, config_call, client, last_request,
                   wrapperVars, dc, handlerVars>>

\* What a server sends as the body of a response: nothing, a JSON object
\* without or with an 'error' key, a JSON array, or text that is not JSON.
ResponseBodies == {"empty", "object", "error_object", "array", "not_json"}

\* The keys 'error' and 'status_code' among the keys of a parsed body
BodyKeys(body) == IF body = "error_object" THEN {"error"} ELSE {}

\* return <dict or list>: value tells what is returned, keys which of the keys
\* 'error' and 'status_code' it has
Returns(value, keys) == [kind |-> "return", value |-> value, keys |-> keys]

\* an exception leaves _make_request
Raises(e) == [kind |-> "raise", value |-> e, keys |-> {}]

\* {"error": ..., "status_code": 500}
ErrorDict == Returns("error_dict", {"error", "status_code"})

\* for attempt in range(self.retry_count): exhausted without a return
OpsLoopEnds ==
    /\ ops.pc = "loop" /\ ops.attempt >= ops.retry_count
    /\ ops' = [ops EXCEPT !.pc = "done", !.result = ErrorDict]
    /\ UNCHANGED <<logVars, config_headers, configured, config_call, client, last_request,
                   wrapperVars, dc, handlerVars>>

\* except requests.exceptions.RequestException: Log.error, then the next
\* attempt, or the error dict on the last one; o is the object as the try
\* block left it
OpsExcept(o) ==
    /\ LogWrite("error", 2 * MaxRetryCount)
    /\ ops' = IF o.attempt < o.retry_count - 1
              THEN [o EXCEPT !.pc = "loop", !.attempt = @ + 1]
              ELSE [o EXCEPT !.pc = "done", !.result = ErrorDict]

\* One attempt: requests.request(..., headers=self.headers, ...) answers with
\* the expected status ("ok") or another ("bad") and a body, logged by
\* Log.api_call, or raises a RequestException.
OpsSend(ending, body) ==
    /\ ops.pc = "loop" /\ ops.attempt < ops.retry_count
    /\ last_request' =
          [by |-> "ops", method |-> ops.method, headers |-> ops.headers,
           outcome |-> IF ending = "exception" THEN "exception" ELSE "response",
           logger |-> FALSE,
           api_call_entries |-> IF ending = "exception" THEN 0 ELSE 1,
           current |-> get_logid.logid]
    /\ IF ending = "exception"
       THEN OpsExcept([ops EXCEPT !.sent = @ + 1])
       ELSE /\ LogWrite("api_call", 2 * MaxRetryCount)
            /\ ops' = [ops EXCEPT !.pc = "check", !.status = ending, !.body = body,
                                  !.sent = @ + 1,
                                  !.ok_seen = @ \/ ending = "ok"]
    /\ UNCHANGED <<headers, config_headers, configured, config_call, client, wrapperVars, dc, handlerVars>>

\* response.json() of a body that is not JSON raises JSONDecodeError, which is
\* a RequestException in some versions of requests (caught = TRUE: handled by
\* the except clause) and a plain ValueError in others (it leaves the call).
OpsJsonError(caught) ==
    IF caught
    THEN OpsExcept(ops)
    ELSE /\ ops' = [ops EXCEPT !.pc = "done", !.result = Raises("JSONDecodeError")]
         /\ UNCHANGED logVars

\* if response.status_code == expected_status: return the parsed body ({} when
\* there is no content); else warn and continue while attempts remain, else
\* return the parsed body with 'status_code' set, which a list refuses.
OpsCheck(caught) ==
    /\ ops.pc = "check"
    /\ IF ops.status = "ok"
       THEN IF ops.body = "not_json"
            THEN OpsJsonError(caught) /\ UNCHANGED headers
            ELSE /\ ops' = [ops EXCEPT !.pc = "done",
                                       !.result = Returns(ops.body, BodyKeys(ops.body))]
                 /\ UNCHANGED logVars
       ELSE IF ops.attempt < ops.retry_count - 1
       THEN /\ LogWrite("warning", 2 * MaxRetryCount)
            /\ ops' = [ops EXCEPT !.pc = "loop", !.attempt = @ + 1]
            /\ UNCHANGED headers
       ELSE CASE ops.body = "not_json" -> OpsJsonError(caught) /\ UNCHANGED headers
              [] ops.body = "array" ->
                    /\ ops' = [ops EXCEPT !.pc = "done", !.result = Raises("TypeError")]
                    /\ UNCHANGED logVars
              [] OTHER ->
                    /\ ops' = [ops EXCEPT
                                 !.pc = "done",
                                 !.result = Returns(ops.body,
                                                    BodyKeys(ops.body) \cup {"status_code"})]
                    /\ UNCHANGED logVars
    /\ UNCHANGED <<config_headers, configured, config_call, client, last_request, wrapperVars, dc, handlerVars>>

ConstructOps ==
    \E custom \in CustomHeaders, rc \in 0..MaxRetryCount : NewUserOperations(custom, rc)

CallOperation == \E m \in CrudMethods : MakeRequest(m)

OpsAttempt ==
    \/ \E e \in {"ok", "bad"}, b \in ResponseBodies : OpsSend(e, b)
    \/ OpsSend("exception", "none")

OpsStatusCheck == \E caught \in BOOLEAN : OpsCheck(caught)

NextOps ==
    \/ ConstructOps
    \/ CallOperation
    \/ OpsLoopEnds
    \/ OpsAttempt
    \/ OpsStatusCheck
    \/ CallSetLogid

SpecOps == InitClient /\ [][NextOps]_vars

(***************************************************************************)
(* SpecConfig: calls of TestEnvironment.get_config over IDC files and      *)
(* environment sections that define or omit each setting.                  *)
(***************************************************************************)
MaxSetting == 2     \* values a configuration file gives a setting: 1..MaxSetting

DefaultHost == 0            \* idc_config.get("host", ""): the empty string
DefaultTimeout == 30        \* idc_config.get("timeout", 30)
DefaultRetryCount == 3      \* idc_config.get("retry_count", 3)

SettingKeys == {"host", "timeout", "retry_count"}

\* every dict that defines some of the settings, with values from 1..MaxSetting
Sections ==
    UNION {[ks -> 1..MaxSetting] : ks \in SUBSET SettingKeys}

\* default_headers of the IDC file and headers of an environment's section;
\* a missing key reads as {} in both places
IdcHeaders == {NoHeaders, "Content-Type" :> 1, ("Content-Type" :> 1) @@ ("Accept" :> 1)}
EnvHeaders == {NoHeaders, "Accept" :> 2, ("Content-Type" :> 2) @@ ("Authorization" :> 2)}

\* dict.get(key, default)
Get(d, k, default) == IF k \in DOMAIN d THEN d[k] ELSE default

\* ConfigLoader.get_host / get_default_timeout / get_default_retry_count
LoaderDefault(idc, k) ==
    CASE k = "host"        -> Get(idc, k, DefaultHost)
      [] k = "timeout"     -> Get(idc, k, DefaultTimeout)
      [] k = "retry_count" -> Get(idc, k, DefaultRetryCount)

\* TestEnvironment.get_config(env): the environment's section is copied, host
\* is assigned from the loader, timeout and retry_count are filled in when the
\* section has none, and headers are {**default_headers, **env_headers}.
get_config(idc, default_headers, env, env_headers) ==
    LET with_host == Merge(env, "host" :> LoaderDefault(idc, "host"))
        with_timeout ==
            IF "timeout" \notin DOMAIN with_host
            THEN Merge(with_host, "timeout" :> LoaderDefault(idc, "timeout"))
            ELSE with_host
        with_retry_count ==
            IF "retry_count" \notin DOMAIN with_timeout
            THEN Merge(with_timeout, "retry_count" :> LoaderDefault(idc, "retry_count"))
            ELSE with_timeout
    IN  [settings |-> with_retry_count, headers |-> Merge(default_headers, env_headers)]

ConfigCalls ==
    {[NoConfigCall EXCEPT !.pc = "call", !.idc = i, !.default_headers = d,
                          !.env = e, !.headers = h] :
        i \in Sections, d \in IdcHeaders, e \in Sections, h \in EnvHeaders}

InitConfig ==
    /\ cfg = IdleConfig
    /\ WrapperInit
    /\ dc = NoDelayCall
    /\ LogInit
    /\ config_headers = "Content-Type" :> 1
    /\ configured = config_headers
    /\ config_call \in ConfigCalls
    /\ client = NoClient
    /\ ops = NoOps
    /\ last_request = NoRequest

\* config = TestEnvironment.get_config(env)
GetConfigCall ==
    /\ config_call.pc = "call"
    /\ config_call' =
          [config_call EXCEPT
             !.pc = "done",
             !.result = get_config(config_call.idc, config_call.default_headers,
                                   config_call.env, config_call.headers)]
    /\ UNCHANGED <<wrapperVars, dc, handlerVars, logVars, config_headers, configured, client,
                   ops, last_request>>

NextConfig == GetConfigCall

SpecConfig == InitConfig /\ [][NextConfig]_vars

(***************************************************************************)
(* SpecInstances: PTELogger instances made for one logger name, as by      *)
(* successive get_test_logger calls for one test class, the logging.Logger *)
(* they share and the lines written through them.                          *)
(***************************************************************************)
MaxInstances == 3   \* PTELogger instances made for the name

\* PTELogger(name, logid=logid_arg): self._logid = logid or generate_logid();
\* handlers are set up, their LogIdFilter bound to this instance, only when
\* logging.getLogger(name) has no handlers yet.
NewPTELogger(logid_arg) ==
    LET own == ~Truthy(logid_arg)
        logid == IF own THEN GenLogid(generated + 1) ELSE logid_arg
    IN  /\ Len(instances) < MaxInstances
        /\ own => generated < MaxGenerated
        /\ generated' = IF own THEN generated + 1 ELSE generated
        /\ instances' = Append(instances, logid)
        /\ handlers' = IF handlers = <<>> THEN <<Len(instances) + 1>> ELSE handlers
        /\ UNCHANGED last_line

\* instance.logid = value: a different value is stored and _recreate_handlers
\* removes every handler of the logging.Logger and sets up this instance's.
SetInstanceLogid(i, value) ==
    /\ instances' = [instances EXCEPT ![i] = value]
    /\ handlers' = IF instances[i] # value THEN <<i>> ELSE handlers
    /\ UNCHANGED <<generated, last_line>>

\* instance._log_to_allure(...): self.logger.log(log_level, message); each
\* handler's LogIdFilter sets record.logid to the logid of the instance it is
\* bound to, and the formatter prints it.
WriteLine(i) ==
    /\ handlers # <<>>
    /\ last_line' = [through |-> i, logid |-> instances[i],
                     shown |-> instances[handlers[1]]]
    /\ UNCHANGED <<generated, instances, handlers>>

CreateInstance ==
    /\ \E l \in {NoneLogid} \cup GivenLogids : NewPTELogger(l)
    /\ UNCHANGED <<current_logid, logger_logid, test_started, accumulated, log_entries,
                   attached, last_op, last_set, reported, headers>>
    /\ UNCHANGED <<wrapperVars, dc, clientVars>>

ChangeInstanceLogid ==
    /\ \E i \in 1..Len(instances), x \in GivenLogids : SetInstanceLogid(i, x)
    /\ UNCHANGED <<current_logid, logger_logid, test_started, accumulated, log_entries,
                   attached, last_op, last_set, reported, headers>>
    /\ UNCHANGED <<wrapperVars, dc, clientVars>>

LogThroughInstance ==
    /\ \E i \in 1..Len(instances) : WriteLine(i)
    /\ UNCHANGED <<current_logid, logger_logid, test_started, accumulated, log_entries,
                   attached, last_op, last_set, reported, headers>>
    /\ UNCHANGED <<wrapperVars, dc, clientVars>>

NextInstances ==
    \/ CreateInstance
    \/ ChangeInstanceLogid
    \/ LogThroughInstance

SpecInstances == InitLog /\ [][NextInstances]_vars

(***************************************************************************)
(* Properties of the wrappers (Spec).                                      *)
(***************************************************************************)
\* isinstance(e, config.exceptions), stated on the class hierarchy.
Retryable(e) == \E c \in cfg.exceptions : c \in Mro(e)

\* Elapsed time of the decorated call.
Elapsed == now - start_time

\* C1: with max_attempts = N >= 1 the wrapped function is invoked at most N
\* times during one call, the invocations that raised and those whose result
\* did not satisfy the condition counted together.
C1_AtMostMaxAttempts ==
    cfg.max_attempts >= 1 => (calls <= cfg.max_attempts /\ raised <= calls)

\* C1 witness: a retry_with_condition call that used all of its 3 attempts,
\* some raising and some returning an unsatisfying result.
C1_Witness ==
    /\ pc = "done" /\ cfg.mode = "cond" /\ cfg.max_attempts = 3
    /\ calls = 3 /\ raised \in {1, 2}

\* C2: retry(...): when an invocation returns normally (the earlier ones
\* having raised retryable exceptions), the call ends at once with exactly
\* that value, and the function is never invoked again.
C2_ReturnsFirstSuccess ==
    /\ [](cfg.mode = "retry" /\ last.kind = "return"
            => /\ pc = "done"
               /\ outcome = Returned(last.val)
               /\ raised = calls - 1
               /\ calls = attempt)
    /\ [][cfg.mode = "retry" /\ last.kind = "return" => calls' = calls]_vars

\* C2 witness: two retryable failures, then a success whose value is returned.
C2_Witness ==
    /\ cfg.mode = "retry" /\ pc = "done" /\ calls = 3 /\ raised = 2
    /\ outcome.kind = "return" /\ outcome.val.kind = "'ok'"

\* C3: with no timeout set, a call all of whose invocations raised retryable
\* exceptions ends by raising the last invocation's exception, after exactly
\* max_attempts invocations and max_attempts - 1 delays.
C3_RaisesLastAfterAllAttempts ==
    (/\ cfg.timeout = 0 /\ cfg.max_attempts >= 1 /\ pc = "done"
     /\ raised = calls /\ last.kind = "raise" /\ Retryable(last.exc))
    => /\ outcome = Raised(last.exc)
       /\ calls = cfg.max_attempts
       /\ sleeps = cfg.max_attempts - 1

\* C3 witness: three retryable failures, the last one a TimeoutError raised by
\* the function itself, and two delays.
C3_Witness ==
    /\ cfg.timeout = 0 /\ cfg.max_attempts = 3 /\ pc = "done"
    /\ raised = 3 /\ calls = 3 /\ sleeps = 2
    /\ outcome = Raised("TimeoutError") /\ last_exception = "TimeoutError"

\* C4: an invocation raising an exception that is no instance of any type in
\* `exceptions` ends the call at once with that exception: no delay follows it
\* (every delay so far followed an earlier invocation) and no invocation.
C4_NonRetryablePropagates ==
    /\ [](last.kind = "raise" /\ ~Retryable(last.exc)
            => pc = "done" /\ outcome = Raised(last.exc) /\ sleeps = calls - 1)
    /\ [][last.kind = "raise" /\ ~Retryable(last.exc)
            => calls' = calls /\ sleeps' = sleeps]_vars

\* C4 witness: with exceptions = (ValueError,), the function raises a
\* TimeoutError on the first of three attempts.
C4_Witness ==
    /\ pc = "done" /\ cfg.max_attempts = 3 /\ attempt = 1 /\ calls = 1 /\ sleeps = 0
    /\ cfg.exceptions = {"ValueError"} /\ ~timed_out
    /\ last.kind = "raise" /\ outcome = Raised("TimeoutError")

\* C5: retry_with_condition: when no invocation raised and an invocation's
\* result is the first to satisfy the condition, the call returns that result
\* and the function has been invoked exactly that many times.
C5_ReturnsFirstSatisfying ==
    /\ []((/\ cfg.mode = "cond" /\ raised = 0 /\ last.kind = "return"
           /\ condition_checker(cfg.condition, last.val) = "True")
            => (pc = "done" /\ outcome = Returned(last.val) /\ calls = attempt))
    /\ [][(/\ cfg.mode = "cond" /\ raised = 0 /\ last.kind = "return"
           /\ condition_checker(cfg.condition, last.val) = "True")
            => calls' = calls]_vars

\* C5 witness: the third result is the first to satisfy a dict condition.
C5_Witness ==
    /\ cfg.mode = "cond" /\ cfg.condition.kind = "dict" /\ pc = "done"
    /\ raised = 0 /\ calls = 3 /\ sleeps = 2
    /\ outcome.kind = "return" /\ last.sat = "True"

\* C6: with a positive timeout, no invocation starts when the time elapsed
\* since the call began is >= timeout, and a call that has met the timeout at
\* the start of an attempt can only end by raising TimeoutError.
C6_NoInvocationAfterTimeout ==
    /\ [][calls' # calls => ~(cfg.timeout > 0 /\ Elapsed >= cfg.timeout)]_vars
    /\ [](timed_out /\ pc = "done" => outcome = Raised("TimeoutError"))
    /\ [](timed_out => cfg.timeout > 0 /\ Elapsed >= cfg.timeout)

\* C6 witness: the timeout is met exactly (elapsed = timeout) after one
\* invocation, and the call has ended with TimeoutError.
C6_Witness ==
    /\ timed_out /\ pc = "done" /\ calls = 1 /\ Elapsed = cfg.timeout
    /\ outcome = Raised("TimeoutError")

\* C7: retry(...): the timeout is checked only before an attempt; an
\* invocation that began before the timeout elapsed runs to its end, and the
\* value it returns is returned by the wrapper although the elapsed time then
\* exceeds the timeout.
C7_LateReturnStillReturned ==
    (/\ cfg.mode = "retry" /\ cfg.timeout > 0 /\ last.kind = "return"
     /\ Elapsed >= cfg.timeout)
    => pc = "done" /\ outcome = Returned(last.val) /\ ~timed_out

\* C7 witness: the second invocation returns when the timeout is exceeded.
C7_Witness ==
    /\ cfg.mode = "retry" /\ cfg.timeout > 0 /\ pc = "done" /\ calls = 2
    /\ Elapsed > cfg.timeout /\ outcome.kind = "return" /\ outcome.val.kind = "'ok'"

(***************************************************************************)
(* Properties of calculate_delay (SpecDelay).                              *)
(***************************************************************************)
\* The fibonacci numbers: F(1) = F(2) = 1, F(n) = F(n-1) + F(n-2).
RECURSIVE F(_)
F(n) == IF n <= 2 THEN 1 ELSE F(n - 1) + F(n - 2)

\* The delay each deterministic strategy is said to give before the cap.
StatedDelay(strategy, base, a) ==
    CASE strategy = "fixed"       -> base
      [] strategy = "exponential" -> base * 2^(a - 1)
      [] strategy = "linear"      -> base * a
      [] strategy = "fibonacci"   -> base * F(a)

\* C8: with jitter disabled, calculate_delay(attempt, base, max_delay, strategy)
\* is min(max_delay, d) for every attempt >= 1 (base and max_delay being
\* delays, hence >= 0), d = base for FIXED, base * 2^(attempt-1) for
\* EXPONENTIAL, base * attempt for LINEAR, base * F(attempt) for FIBONACCI.
C8_DelayFormula ==
    (/\ dc.pc = "done" /\ ~dc.jitter
     /\ dc.strategy \in {"fixed", "exponential", "linear", "fibonacci"})
    => dc.result = Min(dc.max_delay, StatedDelay(dc.strategy, dc.base_delay, dc.attempt))

\* C8 witness: FIBONACCI, attempt 5, base 1: the delay is 5, under the cap 6.
C8_Witness ==
    /\ dc.pc = "done" /\ ~dc.jitter /\ dc.strategy = "fibonacci"
    /\ dc.attempt = 5 /\ dc.base_delay = 1 /\ dc.max_delay = 6 /\ dc.result = 5

\* C9: for every strategy (RANDOM included), jitter on or off, attempt >= 1,
\* base delay >= 0 and max_delay >= 0, the delay calculate_delay returns is
\* >= 0 and <= max_delay.
C9_DelayWithinBounds ==
    dc.pc = "done" => (0 <= dc.result /\ dc.result <= dc.max_delay)

\* C9 witness: RANDOM with jitter, a draw of up to 3 * 2^3 capped at max_delay = 2.
C9_Witness ==
    /\ dc.pc = "done" /\ dc.strategy = "random" /\ dc.jitter
    /\ dc.attempt = 4 /\ dc.base_delay = 3 /\ dc.max_delay = 2 /\ dc.result = 2

(***************************************************************************)
(* Properties of the dict condition (SpecCond).                            *)
(***************************************************************************)
\* The comparison an item of the condition asks for.
Holds(e, actual) ==
    CASE e.op \in {"direct", "eq"} -> actual = e.value
      [] e.op = "ne"               -> actual # e.value
      [] e.op = "gt"               -> actual > e.value
      [] e.op = "gte"              -> actual >= e.value
      [] e.op = "lt"               -> actual < e.value
      [] e.op = "lte"              -> actual <= e.value

\* Every item is a plain expected value or {operator, value} with one of the
\* six comparison operators.
PlainOrComparison(entries) ==
    \A i \in 1..Len(entries) : entries[i].op \in {"direct"} \cup ClaimedOperators

\* The result is a dict holding every key of the condition with a value for
\* which the item's comparison holds.
Matches(result, entries) ==
    /\ result.kind = "dict"
    /\ \A i \in 1..Len(entries) :
          /\ entries[i].key \in result.keys
          /\ Holds(entries[i], result.val[entries[i].key])

\* C10: with a dict condition (plain values and eq/ne/gt/gte/lt/lte items), a
\* result satisfies the condition iff it is a dict holding every key of the
\* condition with a value for which the comparison holds: such a result is
\* returned at once; any other one (a non-dict, a missing key among them) is
\* not satisfied and is followed by a delay and a retry while attempts remain.
C10_DictCondition ==
    (/\ cfg.mode = "cond" /\ cfg.condition.kind = "dict"
     /\ PlainOrComparison(cfg.condition.entries)
     /\ last.kind = "return")
    => IF Matches(last.val, cfg.condition.entries)
       THEN last.sat = "True" /\ pc = "done" /\ outcome = Returned(last.val)
       ELSE /\ last.sat = "False"
            /\ IF calls < cfg.max_attempts
               THEN pc \in {"for", "try"} /\ sleeps = calls /\ outcome = NoOutcome
               ELSE pc = "done" /\ outcome = Returned(last.val)

\* C10 witness: a two-item condition with a comparison item; the first result
\* did not satisfy it (a delay followed), the second one, a dict, does.
C10_Witness ==
    /\ cfg.condition.kind = "dict" /\ Len(cfg.condition.entries) = 2
    /\ cfg.condition.entries[1].op = "direct" /\ cfg.condition.entries[2].op = "gte"
    /\ pc = "done" /\ calls = 2 /\ sleeps = 1
    /\ last.sat = "True" /\ outcome = Returned(last.val)
    /\ outcome.val.kind = "dict"

(***************************************************************************)
(* retry_on_false and retry_on_none.                                       *)
(***************************************************************************)
\* The results the claim says are accepted: everything but the value False
\* (retry_on_false), everything but None (retry_on_none).
Accepted(name, v) ==
    IF name = "is_not_false" THEN v.kind # "False" ELSE v.kind # "None"

\* C11: under retry_on_false / retry_on_none, when no invocation raised, the
\* call is over as soon as an invocation returns a result other than False
\* (resp. None): it returns that result, the function has been invoked once
\* per attempt and at most max_attempts times, and 0, '', [] and None (resp.
\* False) are returned without a retry.
C11_ReturnsFirstNotFalseOrNone ==
    (/\ cfg.mode = "cond" /\ cfg.condition.kind = "callable"
     /\ cfg.condition.name \in {"is_not_false", "is_not_none"}
     /\ raised = 0 /\ last.kind = "return"
     /\ Accepted(cfg.condition.name, last.val))
    => /\ pc = "done"
       /\ outcome = Returned(last.val)
       /\ calls = attempt
       /\ calls <= cfg.max_attempts
       /\ sleeps = calls - 1

\* C11 witness: retry_on_false got False twice, then None, and returned None.
C11_Witness ==
    /\ cfg.mode = "cond" /\ cfg.condition.name = "is_not_false"
    /\ pc = "done" /\ raised = 0 /\ ~timed_out
    /\ calls = 3 /\ sleeps = 2
    /\ last.val.kind = "None" /\ outcome = Returned(last.val)

C13_LogidStableUntilNextSet ==
    /\ []((last_op = "get_logid" /\ last_set # NoneLogid) => reported = last_set)
    /\ [][(last_op = "get_logid" /\ last_op' = "get_logid")
            => reported' = reported]_vars

\* C13 witness: after set_logid(1) two entries were logged under logid 1,
\* and get_logid then returned 1.
C13_Witness ==
    /\ last_set = 1 /\ last_op = "get_logid" /\ reported = 1
    /\ Len(log_entries) = MaxEntries
    /\ \A i \in 1..Len(log_entries) : log_entries[i].logid = 1

\* C14: every entry logged through the Log class is stamped with the logid
\* Log.get_logid() reports: when get_logid has returned, all the entries
\* written so far carry the value it returned, whatever the order of calls.
C14_EntriesCarryReportedLogid ==
    last_op = "get_logid"
    => \A i \in 1..Len(log_entries) : log_entries[i].logid = reported

\* C15: the dict Log.get_headers_with_logid(additional_headers) returned has
\* a logId entry equal to what Log.get_logid() returns, for every argument.
C15_HeadersCarryCurrentLogid ==
    last_op = "get_headers_with_logid"
    => ("logId" \in DOMAIN headers /\ headers["logId"] = get_logid.logid)

(***************************************************************************)
(* The APIClient.                                                          *)
(***************************************************************************)
\* d with the key k removed
Without(d, k) == [x \in DOMAIN d \ {k} |-> d[x]]

\* C16: every request sent through the APIClient carries a logId header
\* whose value is the client's logid attribute, whatever custom headers the
\* constructor or the call were given.
C16_RequestCarriesClientLogid ==
    last_request.by = "client"
    => /\ "logId" \in DOMAIN last_request.headers
       /\ last_request.headers["logId"] = client.logid

\* C17: every request that completed with a response is recorded by exactly
\* one api_call log entry, with and without a logger argument.
C17_OneApiCallEntryPerRequest ==
    (last_request.by = "client" /\ last_request.outcome = "response")
    => last_request.api_call_entries = 1

\* C18: an APIClient constructed without a logid carries the test's LogID:
\* whenever Log.get_logid() has returned, client.logid and the client's logId
\* header equal the value it returned.
C18_ClientCorrelatedWithLog ==
    (client.made /\ ~client.explicit /\ last_op = "get_logid")
    => /\ client.logid = reported
       /\ client.headers["logId"] = reported

\* C20: once an APIClient is constructed, TestEnvironment.get_headers()
\* still returns the configured headers, which have no logId key, and the
\* headers of a client constructed without custom headers are the configured
\* headers plus logId.
C20_ConfigUntouchedByClient ==
    client.made
    => /\ get_headers.dict = configured
       /\ "logId" \notin DOMAIN get_headers.dict
       /\ "logId" \in DOMAIN client.headers
       /\ (client.custom = NoHeaders
            => Without(client.headers, "logId") = get_headers.dict)

\* C20 witness: a client constructed without custom headers has sent a
\* request with the logId header, and the configuration is as it was.
C20_Witness ==
    /\ client.made /\ client.custom = NoHeaders
    /\ last_request.by = "client" /\ "logId" \in DOMAIN last_request.headers
    /\ config_headers = configured
    /\ DOMAIN configured = {"Content-Type", "Accept"}

(***************************************************************************)
(* UserOperations.                                                         *)
(***************************************************************************)
\* C19: every request UserOperations sends, for every operation and every
\* attempt, carries a logId header equal to the LogID current when it is sent.
C19_OpsRequestCarriesLogid ==
    last_request.by = "ops"
    => /\ "logId" \in DOMAIN last_request.headers
       /\ last_request.headers["logId"] = last_request.current

(***************************************************************************)
(* Properties of TestEnvironment.get_config (SpecConfig).                  *)
(***************************************************************************)
\* The setting k resolved with the environment's value before the IDC's
Precedence(idc, env, k) == IF k \in DOMAIN env THEN env[k] ELSE LoaderDefault(idc, k)

\* C21: get_config resolves host, timeout and retry_count to the value of the
\* environment's section when the section defines one and to the IDC-level
\* value otherwise, and the headers to the IDC's default headers overridden
\* key by key by the environment's headers.
C21_EnvironmentLevelTakesPrecedence ==
    config_call.pc = "done"
    => /\ \A k \in SettingKeys :
            config_call.result.settings[k] = Precedence(config_call.idc, config_call.env, k)
       /\ config_call.result.headers =
            [k \in DOMAIN config_call.default_headers \cup DOMAIN config_call.headers |->
                IF k \in DOMAIN config_call.headers THEN config_call.headers[k]
                ELSE config_call.default_headers[k]]


(***************************************************************************)
(* The wrappers after the timeout check has fired (Spec).                  *)
(***************************************************************************)
\* C22: once the timeout check at the start of an attempt has found the
\* overall timeout reached, the wrapper sleeps no more: neither the step that
\* detects the timeout nor any later step of the call adds a time.sleep.
C22_NoDelayAfterTimeout == [][timed_out' => sleeps' = sleeps]_vars


\* C23: in retry_with_condition, when no invocation raises and none of the
\* max_attempts results satisfies the condition, the call returns the last
\* invocation's result without raising, after exactly max_attempts
\* invocations and max_attempts - 1 delays; an unsatisfied result before the
\* last attempt is followed by a delay and the next attempt.
C23_UnsatisfiedReturnsLast ==
    /\ []((/\ cfg.mode = "cond" /\ pc = "done" /\ cfg.max_attempts >= 1
           /\ calls = cfg.max_attempts /\ raised = 0
           /\ last.kind = "return" /\ last.sat = "False")
          => (outcome = Returned(last.val) /\ sleeps = cfg.max_attempts - 1))
    /\ [][(/\ cfg.mode = "cond" /\ calls' = calls + 1
           /\ last'.kind = "return" /\ last'.sat = "False"
           /\ attempt < cfg.max_attempts)
          => (pc' = "for" /\ sleeps' = sleeps + 1 /\ outcome' = NoOutcome)]_vars

C23_Witness ==
    /\ cfg.mode = "cond" /\ pc = "done" /\ cfg.max_attempts = 3
    /\ calls = 3 /\ raised = 0 /\ last.kind = "return" /\ last.sat = "False"
    /\ outcome = Returned(last.val) /\ sleeps = 2


\* C24: with a condition that is neither a callable nor a dict, the default
\* condition makes retry_with_condition always retry: a call in which no
\* invocation raises and no timeout is hit returns only after max_attempts
\* invocations.
C24_DefaultConditionAlwaysRetries ==
    (/\ cfg.mode = "cond" /\ cfg.condition.kind = "other"
     /\ pc = "done" /\ outcome.kind = "return" /\ raised = 0 /\ ~timed_out)
    => calls = cfg.max_attempts


\* C25: in retry_with_condition an exception raised by the condition
\* predicate is handled like one raised by the wrapped function: when it is
\* an instance of `exceptions` and attempts remain, the attempt is followed
\* by a delay and the next attempt; on the last attempt, or when it is no
\* instance of `exceptions`, it propagates to the caller; the function's
\* result is never returned in its place.
C25_PredicateExceptionHandledLikeFunctions ==
    /\ [][(/\ cfg.mode = "cond" /\ calls' = calls + 1
           /\ last'.kind = "return" /\ last'.sat \notin {"True", "False"})
          => IF Retryable(last'.sat) /\ attempt < cfg.max_attempts
             THEN /\ pc' = "for" /\ sleeps' = sleeps + 1
                  /\ last_exception' = last'.sat /\ outcome' = NoOutcome
             ELSE /\ pc' = "done" /\ sleeps' = sleeps
                  /\ outcome' = Raised(last'.sat)]_vars
    /\ []((/\ cfg.mode = "cond" /\ pc = "done"
           /\ last.kind = "return" /\ last.sat \notin {"True", "False"})
          => outcome = Raised(last.sat))

C25_Witness ==
    /\ cfg.mode = "cond" /\ pc = "done" /\ Retryable("TypeError")
    /\ last.kind = "return" /\ last.sat = "TypeError"
    /\ calls = 2 /\ sleeps = 1 /\ outcome = Raised("TypeError")


(***************************************************************************)
(* Properties of UserOperations._make_request and delete_user (SpecOps).   *)
(***************************************************************************)
\* C26: _make_request sends at most retry_count requests per call; a response
\* with the expected status ends the call with that response's body and
\* nothing is sent after it; and a call in which no attempt got the expected
\* status returns a dict carrying status_code instead of raising.
C26_MakeRequestBounded ==
    /\ [](ops.sent <= ops.retry_count)
    /\ [][(ops.pc = "check" /\ ops.status = "ok" /\ ops' # ops)
          => (/\ ops'.pc = "done" /\ ops'.sent = ops.sent
              /\ ops'.result.kind = "return" /\ ops'.result.value = ops.body)]_vars
    /\ []((ops.pc = "done" /\ ~ops.ok_seen)
          => (/\ ops.result.kind = "return" /\ ops.result.value # "array"
              /\ "status_code" \in ops.result.keys))

\* UserOperations.delete_user: return 'error' not in result
delete_user(result) == "error" \notin result.keys

\* C27: delete_user returns True if and only if some attempt of the DELETE
\* request received the expected status, whatever bodies the server sent.
C27_DeleteTrueIffExpectedStatus ==
    (ops.pc = "done" /\ ops.method = "DELETE" /\ ops.result.kind = "return")
    => (delete_user(ops.result) <=> ops.ok_seen)


(***************************************************************************)
(* The consolidated report of the Log class (SpecLog).                     *)
(***************************************************************************)
\* entries waiting in PTELogger._accumulated_logs for the next test_complete
Pending ==
    LET RECURSIVE Sum(_)
        Sum(ks) == IF ks = {} THEN 0
                   ELSE LET k == CHOOSE x \in ks : TRUE
                        IN  accumulated[k] + Sum(ks \ {k})
    IN  Sum(DOMAIN accumulated)

\* C28: no logged entry is lost from the consolidated report: every entry
\* written so far has been emitted in a consolidated attachment or waits in
\* the accumulated logs for a later Log.end_test, and neither Log.set_logid
\* nor Log.end_test discards entries that were not yet attached.
C28_NoEntryLost ==
    /\ [](Len(log_entries) = attached + Pending)
    /\ [][last_op' \in {"set_logid", "log"} => attached' + Pending' >= attached + Pending]_vars


(***************************************************************************)
(* Lines written through PTELogger instances of one name (SpecInstances).  *)
(***************************************************************************)
\* C29: every console or file log line written through a PTELogger shows
\* that instance's current logid, also with several instances of the same
\* logger name, and the logging.Logger never holds duplicate handlers.
C29_LineShowsWritersLogid ==
    /\ last_line.through # 0 => last_line.shown = last_line.logid
    /\ Len(handlers) <= 1

====
